---------------------------- MODULE Spec2Model ----------------------------
(***************************************************************************)
(* CustomESRequestSerializer of volto-searchkit-block                      *)
(* (src/src/components/Searchkit/SearchBarSection.jsx).                    *)
(*                                                                         *)
(* The file holds two serializer classes: the query_string one (lines      *)
(* 44-504, class "qs" below) and the multi_match one (lines 509-774, class *)
(* "mm" below).  A serializer instance is the state; serialize is the one  *)
(* operation.  JavaScript strings are TLA+ strings (TLC evaluates Len, \o  *)
(* and SubSeq on them), arrays are sequences, objects are functions from   *)
(* key strings, an absent key is a key outside the DOMAIN.                 *)
(***************************************************************************)
EXTENDS Integers, Sequences, FiniteSets, TLC

VARIABLES
    this,          \* the serializer instance: its class and constructor-set fields
    constructed,   \* the instance as the constructor left it
    stateQuery,    \* argument of the most recent serialize call
    bodyParams,    \* value returned by the most recent serialize call
    qs_tailored,   \* the five qs_tailored_* lists at the end of that call
    aggValueObj,   \* what getFilters returned in that call
    calls,         \* the serialize calls made so far, argument and result
    constants_js   \* listFilterFields and nestedFilterFields, imported on line 42

vars ==
    <<this, constructed, stateQuery, bodyParams, qs_tailored, aggValueObj, calls,
      constants_js>>

(***************************************************************************)
(* Bounds of the model.                                                    *)
(***************************************************************************)
MaxLen == 4        \* longest enumerated query string
MaxPairs == 3      \* most (facet name, value) pairs in the filters of one stateQuery
MaxCalls == 2      \* most serialize calls on one instance
MaxPage == 3       \* pages range over -MaxPage..MaxPage
MaxSize == 10      \* sizes range over -MaxSize..MaxSize

(***************************************************************************)
(* JavaScript values and library functions used by the serializers.        *)
(***************************************************************************)
EmptyObj == [k \in {} |-> TRUE]

slice(s, n) == SubSeq(s, n + 1, Len(s))

startsWith(s, p) == Len(p) <= Len(s) /\ SubSeq(s, 1, Len(p)) = p

endsWith(s, p) == Len(p) <= Len(s) /\ SubSeq(s, Len(s) - Len(p) + 1, Len(s)) = p

\* String.prototype.indexOf, 1-based; 0 when p does not occur in s.
indexOf(s, p) ==
    LET hits == {i \in 1..(Len(s) - Len(p) + 1) : SubSeq(s, i, i + Len(p) - 1) = p}
    IN  IF hits = {} THEN 0 ELSE CHOOSE i \in hits : \A j \in hits : i <= j

includes(s, p) == indexOf(s, p) # 0

\* String.prototype.replace with a string pattern: the first occurrence only.
replace(s, p, r) ==
    LET i == indexOf(s, p)
    IN  IF i = 0 THEN s
        ELSE SubSeq(s, 1, i - 1) \o r \o SubSeq(s, i + Len(p), Len(s))

\* String.prototype.split with a one-character separator.
RECURSIVE split(_, _)
split(s, sep) ==
    LET i == indexOf(s, sep)
    IN  IF i = 0 THEN <<s>>
        ELSE <<SubSeq(s, 1, i - 1)>> \o split(SubSeq(s, i + 1, Len(s)), sep)

\* Array.prototype.join.
RECURSIVE join(_, _)
join(list, sep) ==
    IF list = <<>> THEN ""
    ELSE IF Len(list) = 1 THEN list[1]
    ELSE list[1] \o sep \o join(Tail(list), sep)

\* lodash trim(s, chars) for a one-character chars: strips it from both ends.
RECURSIVE trimStart(_, _)
trimStart(s, c) == IF startsWith(s, c) /\ c # "" THEN trimStart(slice(s, 1), c) ELSE s

RECURSIVE trimEnd(_, _)
trimEnd(s, c) ==
    IF endsWith(s, c) /\ c # "" THEN trimEnd(SubSeq(s, 1, Len(s) - 1), c) ELSE s

trim(s, c) == trimEnd(trimStart(s, c), c)

\* String.prototype.trim: strips white space; the space is the only white
\* space character of the modelled alphabet.
trimWhitespace(s) == trim(s, " ")

\* lodash isEmpty of a string or an array.
isEmpty(v) == Len(v) = 0

\* JSON.stringify of an array of strings without characters to escape.
JSON_stringify(list) ==
    "[" \o join([i \in 1..Len(list) |-> "\"" \o list[i] \o "\""], ",") \o "]"

(***************************************************************************)
(* The tokenizer of the query_string serializer: serialize's local         *)
(* functions, lines 99-183.                                                *)
(***************************************************************************)
force_fuzzy == TRUE

\* The five qs_tailored_* lists as declared, lines 101-105.
NoTailored ==
    [should_notexact |-> <<>>, should_exact |-> <<>>, must_notexact |-> <<>>,
     must_exact |-> <<>>, mustNot_exact |-> <<>>]

_remove_orphan_leading_or_trailing_quotmarks(word) ==
    LET word_without_plus_or_minus == trim(trim(word, "+"), "-")
    IN  IF /\ ~(/\ startsWith(word_without_plus_or_minus, "\"")
                /\ endsWith(word_without_plus_or_minus, "\""))
           /\ ~(/\ ~startsWith(word_without_plus_or_minus, "\"")
                /\ ~endsWith(word_without_plus_or_minus, "\""))
        THEN replace(word, "\"", "")
        ELSE word

\* Both word.replace(...) results are discarded (strings are immutable) and
\* the argument is returned.
_removeQuotationMarks(word) == word

\* word_new without wordpartlist.push(word).
word_new_parts_only(word) ==
    LET wordpartlist == split(word, "-")
    IN  IF Len(wordpartlist) > 1
        THEN join([i \in 1..Len(wordpartlist) |->
                      wordpartlist[i] \o " " \o wordpartlist[i] \o "~"], " ")
        ELSE word \o " " \o word \o "~"

\* Lines 162-181: the entry pushed to qs_tailored_should_notexact.
word_new(word) ==
    LET wordpartlist == split(word, "-")
    IN  IF Len(wordpartlist) > 1
        THEN LET pushed == Append(wordpartlist, word)
                 resultlist == [i \in 1..Len(pushed) |->
                                   IF force_fuzzy
                                   THEN pushed[i] \o " " \o pushed[i] \o "~"
                                   ELSE pushed[i]]
             IN  join(resultlist, " ")
        ELSE IF force_fuzzy THEN word \o " " \o word \o "~" ELSE word

\* _make_fuzzy_and_enrich_with_word_parts with the wildcard test ahead of
\* the + test.
wildcard_before_plus(t, word) ==
    IF startsWith(word, "-")
    THEN [t EXCEPT !.mustNot_exact = Append(@, _removeQuotationMarks(slice(word, 1)))]
    ELSE IF includes(word, "*") \/ includes(word, "?")
    THEN [t EXCEPT !.should_exact = Append(@, _removeQuotationMarks(word))]
    ELSE IF startsWith(word, "+")
    THEN IF includes(word, "\"")
         THEN [t EXCEPT !.must_exact = Append(@, slice(word, 1))]
         ELSE [t EXCEPT !.must_notexact = Append(@, slice(word, 1))]
    ELSE IF includes(word, "\"")
    THEN [t EXCEPT !.should_exact = Append(@, word)]
    ELSE [t EXCEPT !.should_notexact = Append(@, word_new(word))]

\* One call of _make_fuzzy_and_enrich_with_word_parts: the lists after it.
_make_fuzzy_and_enrich_with_word_parts(t, word) ==
    IF startsWith(word, "-")
    THEN [t EXCEPT !.mustNot_exact = Append(@, _removeQuotationMarks(slice(word, 1)))]
    ELSE IF startsWith(word, "+")
    THEN IF includes(word, "\"") \/ includes(word, "*") \/ includes(word, "?")
         THEN [t EXCEPT !.must_exact = Append(@, slice(word, 1))]
         ELSE [t EXCEPT !.must_notexact = Append(@, slice(word, 1))]
    ELSE IF includes(word, "*") \/ includes(word, "?")
    THEN [t EXCEPT !.should_exact = Append(@, _removeQuotationMarks(word))]
    ELSE IF includes(word, "\"")
    THEN [t EXCEPT !.should_exact = Append(@, word)]
    ELSE [t EXCEPT !.should_notexact = Append(@, word_new(word))]

\* Lines 188-191: the words of the query string.
IsWord(word) == word # "" /\ word # "\""

\* words without the word !== '"' test.
words_with_lone_quotmark(queryString) ==
    SelectSeq(split(trimWhitespace(queryString), " "), LAMBDA word : word # "")

words(queryString) == SelectSeq(split(trimWhitespace(queryString), " "), IsWord)

\* Lines 193-196: words.forEach.
RECURSIVE tokenize(_, _)
tokenize(t, ws) ==
    IF ws = <<>> THEN t
    ELSE tokenize(_make_fuzzy_and_enrich_with_word_parts(
                      t, _remove_orphan_leading_or_trailing_quotmarks(ws[1])),
                  Tail(ws))

(***************************************************************************)
(* getFilters, lines 62-83 and 532-553 (the same text in both classes).    *)
(* The object it returns is kept as the sequence of its entries in         *)
(* insertion order, which is the order Object.keys gives for it.           *)
(***************************************************************************)
HasKey(obj, aggName) == \E i \in 1..Len(obj) : obj[i].aggName = aggName

KeyIndex(obj, aggName) == CHOOSE i \in 1..Len(obj) : obj[i].aggName = aggName

\* getChildFilter assigning [fieldValue] also when the key is there already.
RECURSIVE getChildFilter_overwrite(_, _)
getChildFilter_overwrite(obj, filter) ==
    LET aggName == filter[1]
        fieldValue == filter[2]
        pushed == IF HasKey(obj, aggName)
                  THEN [obj EXCEPT ![KeyIndex(obj, aggName)].values = <<fieldValue>>]
                  ELSE Append(obj, [aggName |-> aggName, values |-> <<fieldValue>>])
        hasChild == Len(filter) = 3
    IN  IF hasChild THEN getChildFilter_overwrite(pushed, filter[3]) ELSE pushed

RECURSIVE getChildFilter(_, _)
getChildFilter(obj, filter) ==
    LET aggName == filter[1]
        fieldValue == filter[2]
        pushed == IF HasKey(obj, aggName)
                  THEN [obj EXCEPT ![KeyIndex(obj, aggName)].values = Append(@, fieldValue)]
                  ELSE Append(obj, [aggName |-> aggName, values |-> <<fieldValue>>])
        hasChild == Len(filter) = 3
    IN  IF hasChild THEN getChildFilter(pushed, filter[3]) ELSE pushed

RECURSIVE getFiltersFrom(_, _)
getFiltersFrom(obj, filters) ==
    IF filters = <<>> THEN obj
    ELSE getFiltersFrom(getChildFilter(obj, filters[1]), Tail(filters))

getFilters(filters) == getFiltersFrom(<<>>, filters)

(***************************************************************************)
(* Parts of serialize that both classes have in the same words.            *)
(***************************************************************************)
\* Lines 302-307 and 586-591.
sortPart(sq) ==
    IF sq.sortBy # "bestmatch"
    THEN [sort |-> <<(sq.sortBy :> (IF sq.sortOrder = "desc" THEN "desc" ELSE "asc"))>>]
    ELSE EmptyObj

\* Lines 309-311 and 593-595.
sizePart(sq) == IF sq.size > 0 THEN [size |-> sq.size] ELSE EmptyObj

\* fromPart with from = page * s.
fromPart_pageTimesSize(sq) ==
    IF sq.page > 0
    THEN LET s == IF sq.size > 0 THEN sq.size ELSE 0
         IN  [from |-> sq.page * s]
    ELSE EmptyObj

\* Lines 313-317 and 597-601.
fromPart(sq) ==
    IF sq.page > 0
    THEN LET s == IF sq.size > 0 THEN sq.size ELSE 0
         IN  [from |-> (sq.page - 1) * s]
    ELSE EmptyObj

\* lodash extend(obj, source) for each source in turn: later keys win.
RECURSIVE extendAll(_, _)
extendAll(obj, sources) ==
    IF sources = <<>> THEN obj
    ELSE extendAll(sources[1] @@ obj, Tail(sources))

(***************************************************************************)
(* serialize of the query_string class, lines 89-503.                      *)
(***************************************************************************)
\* Lines 198-203.
simpleFields_exact(simpleFields) ==
    [i \in 1..Len(simpleFields) |->
        LET fld == simpleFields[i]
            fieldname == split(fld, "^")[1]
        IN  replace(fld, fieldname, fieldname \o ".exact")]

query_string(list, fields) ==
    [query_string |-> [query |-> join(list, " "), fields |-> fields]]

\* queryBool without the length test on qs_tailored_should_exact.
queryBool_unguarded(t, simpleFields) ==
    LET exact == simpleFields_exact(simpleFields)
        shouldList ==
            (IF Len(t.should_notexact) > 0
             THEN <<query_string(t.should_notexact, simpleFields)>> ELSE <<>>)
            \o <<query_string(t.should_exact, exact)>>
        mustList ==
            (IF Len(t.must_notexact) > 0
             THEN <<query_string(t.must_notexact, simpleFields)>> ELSE <<>>)
            \o (IF Len(t.must_exact) > 0
                THEN <<query_string(t.must_exact, exact)>> ELSE <<>>)
        must_notList ==
            IF Len(t.mustNot_exact) > 0
            THEN <<query_string(t.mustNot_exact, exact)>> ELSE <<>>
    IN  [bool |-> [should |-> shouldList, must |-> mustList, must_not |-> must_notList]]

\* Lines 206-253.
queryBool(t, simpleFields) ==
    LET exact == simpleFields_exact(simpleFields)
        shouldList ==
            (IF Len(t.should_notexact) > 0
             THEN <<query_string(t.should_notexact, simpleFields)>> ELSE <<>>)
            \o (IF Len(t.should_exact) > 0
                THEN <<query_string(t.should_exact, exact)>> ELSE <<>>)
        mustList ==
            (IF Len(t.must_notexact) > 0
             THEN <<query_string(t.must_notexact, simpleFields)>> ELSE <<>>)
            \o (IF Len(t.must_exact) > 0
                THEN <<query_string(t.must_exact, exact)>> ELSE <<>>)
        must_notList ==
            IF Len(t.mustNot_exact) > 0
            THEN <<query_string(t.mustNot_exact, exact)>> ELSE <<>>
    IN  [bool |-> [should |-> shouldList, must |-> mustList, must_not |-> must_notList]]

fvh(name) == (name :> [matched_fields |-> <<name, name \o ".exact">>, type |-> "fvh"])

\* Lines 256-299.
highlightQS ==
    [fields |-> <<fvh("title"), fvh("description"), fvh("freemanualtags_searchable"),
                  fvh("blocks_plaintext"), fvh("subjects"), fvh("manualfilecontent")>>]

\* Lines 334-340: the object and its keys in order.
aggFieldsMapping ==
    ("kompasscomponent_agg.inner.kompasscomponent_token" :> "kompasscomponent")
    @@ ("targetaudience_agg.inner.targetaudience_token" :> "targetaudience")
    @@ ("organisationunit_agg.inner.organisationunit_token" :> "organisationunit")
    @@ ("informationtype_agg.inner.informationtype_token" :> "informationtype")

aggFieldsMappingKeys ==
    <<"kompasscomponent_agg.inner.kompasscomponent_token",
      "targetaudience_agg.inner.targetaudience_token",
      "organisationunit_agg.inner.organisationunit_token",
      "informationtype_agg.inner.informationtype_token">>

Contains(list, x) == \E i \in 1..Len(list) : list[i] = x

\* Lines 360-372: the reduce that builds additionalterms.  An aggName that
\* is no key of aggFieldsMapping gives fieldName undefined, which
\* listFilterFields does not include.
RECURSIVE additionalterms(_, _)
additionalterms(obj, listFilterFields) ==
    IF obj = <<>> THEN <<>>
    ELSE LET aggName == obj[1].aggName
         IN  (IF /\ aggName \in DOMAIN aggFieldsMapping
                 /\ Contains(listFilterFields, aggFieldsMapping[aggName])
              THEN <<[terms |-> (aggFieldsMapping[aggName] :> obj[1].values)]>>
              ELSE <<>>)
             \o additionalterms(Tail(obj), listFilterFields)

nestedClause(fieldName, values) ==
    [nested |->
        [path |-> fieldName,
         query |-> [bool |-> [must |-> <<[terms |-> ((fieldName \o ".token") :> values)]>>]]]]

\* Lines 374-395: the reduce that builds filter.
RECURSIVE nestedFilter(_, _)
nestedFilter(obj, nestedFilterFields) ==
    IF obj = <<>> THEN <<>>
    ELSE LET aggName == obj[1].aggName
         IN  (IF /\ aggName \in DOMAIN aggFieldsMapping
                 /\ Contains(nestedFilterFields, aggFieldsMapping[aggName])
              THEN <<nestedClause(aggFieldsMapping[aggName], obj[1].values)>>
              ELSE <<>>)
             \o nestedFilter(Tail(obj), nestedFilterFields)

\* Lines 342-353.
globalTermsQS(self) ==
    <<[terms |-> [portal_type |-> <<"Manual">>]],
      [terms |-> [review_state |-> self.reviewstatemapping["Manual"]]]>>

\* post_filterQS setting the filter key whether or not filter is empty.
post_filterQS_always(terms, filter) == [bool |-> [must |-> terms, filter |-> filter]]

\* Lines 402-406.
post_filterQS(terms, filter) ==
    [bool |-> ([must |-> terms] @@ (IF ~isEmpty(filter) THEN [filter |-> filter] ELSE EmptyObj))]

\* Lines 449-462; agg is aggName.split('.').
NotOwnPath(agg0, el) == ~startsWith(agg0, el.nested.path)

aggregation_filter(agg, filter) ==
    IF isEmpty(filter) THEN [match_all |-> EmptyObj]
    ELSE [bool |-> [filter |-> SelectSeq(filter, LAMBDA el : NotOwnPath(agg[1], el))]]

\* Lines 417-425: one list facet's aggregation.
listAgg(aggName) == (aggName :> [terms |-> [field |-> aggFieldsMapping[aggName]]])

\* Lines 464-498: one nested facet's aggregation with its filter.
nestedAgg(aggName, filter) ==
    LET myaggs == split(aggName, ".")
        fieldName == aggFieldsMapping[aggName]
        inner ==
            [nested |-> [path |-> fieldName],
             aggs |-> (myaggs[3] :>
                [terms |-> [field |-> fieldName \o ".token",
                            order |-> [_key |-> "asc"],
                            size |-> 30],
                 aggs |-> [somemoredatafromelasticsearch |->
                    [top_hits |-> [size |-> 1,
                                   _source |-> [includes |-> <<fieldName>>]]]]])]
    IN  (myaggs[1] :> [aggs |-> [inner |-> inner],
                       filter |-> aggregation_filter(myaggs, filter)])

\* Lines 414-500.
aggsQS(filter, consts) ==
    LET listKeys == SelectSeq(aggFieldsMappingKeys,
                        LAMBDA k : Contains(consts.listFilterFields, aggFieldsMapping[k]))
        nestedKeys == SelectSeq(aggFieldsMappingKeys,
                        LAMBDA k : Contains(consts.nestedFilterFields, aggFieldsMapping[k]))
    IN  extendAll(EmptyObj,
            [i \in 1..Len(listKeys) |-> listAgg(listKeys[i])]
            \o [i \in 1..Len(nestedKeys) |-> nestedAgg(nestedKeys[i], filter)])

\* The whole of serialize: what it returns, with the locals the properties
\* below speak of.
serializeQS(self, consts, sq) ==
    LET t == IF ~isEmpty(sq.queryString)
             THEN tokenize(NoTailored, words(sq.queryString))
             ELSE NoTailored
        queryPart ==
            IF ~isEmpty(sq.queryString)
            THEN [query |-> queryBool(t, self.simpleFields), highlight |-> highlightQS]
            ELSE EmptyObj
        obj == IF Len(sq.filters) # 0 THEN getFilters(sq.filters) ELSE <<>>
        terms == globalTermsQS(self) \o additionalterms(obj, consts.listFilterFields)
        filter == nestedFilter(obj, consts.nestedFilterFields)
    IN  [bodyParams |->
            queryPart @@ sortPart(sq) @@ sizePart(sq) @@ fromPart(sq)
            @@ [post_filter |-> post_filterQS(terms, filter),
                aggs |-> aggsQS(filter, consts)],
         qs_tailored |-> t,
         aggValueObj |-> obj]

(***************************************************************************)
(* serialize of the multi_match class, lines 559-773.                      *)
(***************************************************************************)
\* Lines 564-584.
queryPartMM(self, sq) ==
    IF ~isEmpty(sq.queryString)
    THEN [query |->
            [multi_match |->
                [query |-> sq.queryString,
                 fields |-> self.searchedFields,
                 analyzer |-> self.analyzer,
                 operator |-> "or",
                 fuzziness |-> IF force_fuzzy THEN "AUTO" ELSE "0",
                 prefix_length |-> 2,
                 type |-> "most_fields",
                 minimum_should_match |-> "75%"]],
          highlight |-> [number_of_fragments |-> 20, fields |-> <<>>]]
    ELSE EmptyObj

\* Lines 603-605.
getFieldnameFromAgg(agg) == replace(agg, "_agg", "")

\* Lines 608-618.
globalTermsMM(self) ==
    <<[terms |-> [portal_type |-> self.allowed_content_types]],
      [terms |-> [review_state |-> self.allowed_review_states]]>>

\* Lines 620-623: keyBy keeps, per key, the last element with that key;
\* <<>> stands for undefined.
RECURSIVE sectionOf(_)
sectionOf(filters) ==
    IF filters = <<>> THEN <<>>
    ELSE LET last == filters[Len(filters)]
         IN  IF last[1] = "section" THEN last
             ELSE sectionOf(SubSeq(filters, 1, Len(filters) - 1))

sectionIsOthers(section) == section # <<>> /\ section[2] = "others"

\* Lines 631-649: the reduce over Object.keys(aggValueObj).
RECURSIVE terms_of_selected_options(_)
terms_of_selected_options(obj) ==
    IF obj = <<>> THEN <<>>
    ELSE LET aggName == obj[1].aggName
             fieldName == getFieldnameFromAgg(aggName)
             key == IF fieldName = "subjects" THEN "subjects.keyword" ELSE fieldName
         IN  (IF aggName # "section" \/ JSON_stringify(obj[1].values) # "[\"others\"]"
              THEN <<[terms |-> (key :> obj[1].values)]>>
              ELSE <<>>)
             \o terms_of_selected_options(Tail(obj))

\* Lines 664-672 and 706-714.
excludeSections(self) ==
    <<[terms |-> [section |-> [i \in 1..Len(self.search_sections.items) |->
                                  self.search_sections.items[i].section]]]>>

\* Lines 658-673.
post_filterMM(self, terms, selected, section) ==
    [bool |-> ([must |-> terms \o selected]
               @@ (IF sectionIsOthers(section)
                   THEN [must_not |-> excludeSections(self)] ELSE EmptyObj))]

\* Line 685: the clauses of the selected options that are kept for fieldName.
NotSelf(el, fieldName) == fieldName \notin DOMAIN el.terms

\* Lines 680-728.
filterMM(self, terms, selected, section, fieldName) ==
    LET terms_of_selected_options_without_self ==
            SelectSeq(selected, LAMBDA el : NotSelf(el, fieldName))
        myAggsFilter == terms \o terms_of_selected_options_without_self
    IN  [bool |-> ([must |-> myAggsFilter]
                   @@ (IF fieldName # "section" /\ sectionIsOthers(section)
                       THEN [must_not |-> excludeSections(self)] ELSE EmptyObj))]

\* Lines 734-743.
aggNameMM(fieldName) == IF fieldName = "Subject" THEN "subjects_agg" ELSE fieldName \o "_agg"

fieldMM(fieldName) ==
    IF fieldName = "section" THEN "section.keyword"
    ELSE IF fieldName = "Subject" THEN "subjects.keyword"
    ELSE fieldName

\* aggMM ordering the buckets by key descending.
aggMM_desc(self, terms, selected, section, fieldName) ==
    LET aggName == aggNameMM(fieldName)
        field == fieldMM(fieldName)
    IN  (aggName :>
            [aggs |->
                (aggName :> [terms |-> [field |-> field,
                                        order |-> [_key |-> "desc"],
                                        size |-> 500]])
                @@ [somemoredatafromelasticsearch |->
                        [top_hits |-> [size |-> 1, _source |-> [includes |-> <<field>>]]]],
             filter |-> filterMM(self, terms, selected, section, fieldName)])

\* Lines 744-769.
aggMM(self, terms, selected, section, fieldName) ==
    LET aggName == aggNameMM(fieldName)
        field == fieldMM(fieldName)
    IN  (aggName :>
            [aggs |->
                (aggName :> [terms |-> [field |-> field,
                                        order |-> [_key |-> "asc"],
                                        size |-> 500]])
                @@ [somemoredatafromelasticsearch |->
                        [top_hits |-> [size |-> 1, _source |-> [includes |-> <<field>>]]]],
             filter |-> filterMM(self, terms, selected, section, fieldName)])

\* Lines 730-733: Object.keys(this.facet_fields) and 'section'.
aggregations(self) == Append(self.facet_fields, "section")

serializeMM(self, sq) ==
    LET terms == globalTermsMM(self)
        section == sectionOf(sq.filters)
        obj == IF Len(sq.filters) # 0 THEN getFilters(sq.filters) ELSE <<>>
        selected == terms_of_selected_options(obj)
        aggList == aggregations(self)
    IN  [bodyParams |->
            queryPartMM(self, sq) @@ sortPart(sq) @@ sizePart(sq) @@ fromPart(sq)
            @@ [post_filter |-> post_filterMM(self, terms, selected, section),
                aggs |-> extendAll(EmptyObj,
                            [i \in 1..Len(aggList) |->
                                aggMM(self, terms, selected, section, aggList[i])])],
         qs_tailored |-> NoTailored,
         aggValueObj |-> obj]

(***************************************************************************)
(* The state machine: an instance is constructed, then serialize is called *)
(* on it.                                                                  *)
(***************************************************************************)
\* instanceAfterSerialize where push('section') lands in the instance's own
\* facet list, and map(...exact) in its own simpleFields.
instanceAfterSerialize_aliased(self) ==
    IF self.cls = "mm"
    THEN [self EXCEPT !.facet_fields = Append(@, "section")]
    ELSE [self EXCEPT !.simpleFields = simpleFields_exact(@)]

\* A serialize call assigns no field of the instance and changes no array
\* the instance holds: simpleFields is copied by spread before map (lines
\* 198-203), Object.keys gives push a fresh array (731-732), and concat, map
\* and filter return new arrays.
instanceAfterSerialize(self) == self

Returned(r, sq) ==
    /\ stateQuery' = sq
    /\ bodyParams' = r.bodyParams
    /\ qs_tailored' = r.qs_tailored
    /\ aggValueObj' = r.aggValueObj
    /\ calls' = Append(calls, [stateQuery |-> sq, bodyParams |-> r.bodyParams])
    /\ this' = instanceAfterSerialize(this)
    /\ UNCHANGED <<constructed, constants_js>>

SerializeQS(sq) ==
    /\ this.cls = "qs"
    /\ Returned(serializeQS(this, constants_js, sq), sq)

SerializeMM(sq) ==
    /\ this.cls = "mm"
    /\ Returned(serializeMM(this, sq), sq)

\* The constructors, lines 45-48 and 510-518, on the configurations used.
InstanceQS ==
    [cls |-> "qs",
     reviewstatemapping |-> [Manual |-> <<"internally_published", "private">>],
     simpleFields |-> <<"title^1.4", "description">>]

InstanceMM ==
    [cls |-> "mm",
     reviewstatemapping |-> [Manual |-> <<"internally_published", "private">>],
     searchedFields |-> <<"title^1.4", "description">>,
     facet_fields |-> <<"Subject", "informationtype">>,
     allowed_content_types |-> <<"Manual", "Document">>,
     allowed_review_states |-> <<"published">>,
     search_sections |-> [items |-> <<[section |-> "news"], [section |-> "manual"]>>],
     analyzer |-> "german"]

\* The two lists constants.js exports: each facet field is a list field or
\* a nested field.
ConstantsJs ==
    {[listFilterFields |-> <<>>,
      nestedFilterFields |-> <<"kompasscomponent", "targetaudience",
                               "organisationunit", "informationtype">>],
     [listFilterFields |-> <<"targetaudience">>,
      nestedFilterFields |-> <<"kompasscomponent", "organisationunit", "informationtype">>],
     [listFilterFields |-> <<"kompasscomponent", "targetaudience",
                             "organisationunit", "informationtype">>,
      nestedFilterFields |-> <<>>]}

\* The search state of a reset search bar, lines 10-19.
payloadOfReset ==
    [queryString |-> "", sortBy |-> "bestmatch", sortOrder |-> "asc",
     page |-> 1, size |-> 10, filters |-> <<>>]

Constructed(instance, consts) ==
    /\ this = instance
    /\ constructed = instance
    /\ constants_js = consts
    /\ stateQuery = payloadOfReset
    /\ bodyParams = EmptyObj
    /\ qs_tailored = NoTailored
    /\ aggValueObj = <<>>
    /\ calls = <<>>

(***************************************************************************)
(* Query strings: every string of at most MaxLen characters over the       *)
(* characters the tokenizer tells apart, and the documented examples.      *)
(***************************************************************************)
QueryChars == {"a", " ", "+", "-", "\"", "*", "?"}

RECURSIVE Strings(_)
Strings(n) ==
    IF n = 0 THEN {""}
    ELSE LET shorter == Strings(n - 1)
         IN  shorter \cup {s \o c : s \in shorter, c \in QueryChars}

ExampleQueries == {"+foo -bar \"baz\"", "sun-shine", "-\"bar\" \"ba*\"", "   "}

QueryStrings == Strings(MaxLen) \cup ExampleQueries

AllNested == CHOOSE c \in ConstantsJs : c.listFilterFields = <<>>

\* One serialize call per behaviour, on either class, with the query string
\* drawn from QueryStrings.
InitQuery == Constructed(InstanceQS, AllNested) \/ Constructed(InstanceMM, AllNested)

QueryQS ==
    /\ calls = <<>>
    /\ \E q \in QueryStrings : SerializeQS([payloadOfReset EXCEPT !.queryString = q])

QueryMM ==
    /\ calls = <<>>
    /\ \E q \in QueryStrings : SerializeMM([payloadOfReset EXCEPT !.queryString = q])

NextQuery == QueryQS \/ QueryMM

SpecQuery == InitQuery /\ [][NextQuery]_vars

(***************************************************************************)
(* Properties of the query part.                                           *)
(***************************************************************************)
Called == calls # <<>>

CalledQS == Called /\ this.cls = "qs"

CalledMM == Called /\ this.cls = "mm"

Has(obj, key) == key \in DOMAIN obj

\* The number of the given buckets that are not empty.
NonEmptyCount(buckets) == Cardinality({i \in 1..Len(buckets) : buckets[i] # <<>>})

\* C1 as claimed: under query.bool a should, must or must_not key is present
\* only with a non-empty array, and is absent when its buckets are empty.
C1_OnlyNonEmptyKeys ==
    (CalledQS /\ stateQuery.queryString # "") =>
        LET b == bodyParams.query.bool
            t == qs_tailored
        IN  /\ Has(b, "should") <=> (t.should_notexact # <<>> \/ t.should_exact # <<>>)
            /\ Has(b, "must") <=> (t.must_notexact # <<>> \/ t.must_exact # <<>>)
            /\ Has(b, "must_not") <=> t.mustNot_exact # <<>>
            /\ \A k \in DOMAIN b : b[k] # <<>>

\* C1 amended: for every non-empty query string query.bool has all three keys
\* should, must and must_not, and each array holds one query_string clause per
\* non-empty bucket of its kind, so it is the empty array exactly when its
\* buckets are empty.
C1_AllKeysOneClausePerBucket ==
    (CalledQS /\ stateQuery.queryString # "") =>
        LET b == bodyParams.query.bool
            t == qs_tailored
        IN  /\ DOMAIN b = {"should", "must", "must_not"}
            /\ Len(b.should) = NonEmptyCount(<<t.should_notexact, t.should_exact>>)
            /\ Len(b.must) = NonEmptyCount(<<t.must_notexact, t.must_exact>>)
            /\ Len(b.must_not) = NonEmptyCount(<<t.mustNot_exact>>)
            /\ \A k \in DOMAIN b : \A i \in 1..Len(b[k]) :
                   DOMAIN b[k][i] = {"query_string"}

\* A query with a should-fuzzy word only: must and must_not are empty arrays.
C1_Witness ==
    /\ CalledQS
    /\ stateQuery.queryString = "a"
    /\ bodyParams.query.bool.must = <<>>
    /\ bodyParams.query.bool.must_not = <<>>
    /\ Len(bodyParams.query.bool.should) = 1

\* C2 as claimed: query and highlight are absent when the query string is
\* empty or white space only, and both present otherwise.
C2_NoQueryForBlank ==
    Called =>
        IF trimWhitespace(stateQuery.queryString) = ""
        THEN ~Has(bodyParams, "query") /\ ~Has(bodyParams, "highlight")
        ELSE Has(bodyParams, "query") /\ Has(bodyParams, "highlight")

(***************************************************************************)
(* Properties of the tokenizer.  They are stated on the words as           *)
(* _make_fuzzy_and_enrich_with_word_parts receives them (line 195), by     *)
(* selecting from the word list, where the code folds over it.             *)
(***************************************************************************)
Words == [i \in 1..Len(words(stateQuery.queryString)) |->
             _remove_orphan_leading_or_trailing_quotmarks(words(stateQuery.queryString)[i])]

HasQuote(w) == \E i \in 1..Len(w) : SubSeq(w, i, i) = "\""

HasWildcard(w) == \E i \in 1..Len(w) : SubSeq(w, i, i) \in {"*", "?"}

Minus(w) == Len(w) > 0 /\ SubSeq(w, 1, 1) = "-"

Plus(w) == Len(w) > 0 /\ SubSeq(w, 1, 1) = "+"

RuleMustNotExact(w) == Minus(w)

RuleMustExact(w) == ~Minus(w) /\ Plus(w) /\ (HasQuote(w) \/ HasWildcard(w))

RuleMustFuzzy(w) == ~Minus(w) /\ Plus(w) /\ ~(HasQuote(w) \/ HasWildcard(w))

RuleWildcard(w) == ~Minus(w) /\ ~Plus(w) /\ HasWildcard(w)

RuleQuoted(w) == ~Minus(w) /\ ~Plus(w) /\ ~HasWildcard(w) /\ HasQuote(w)

RuleShouldExact(w) == RuleWildcard(w) \/ RuleQuoted(w)

RuleShouldFuzzy(w) == ~Minus(w) /\ ~Plus(w) /\ ~HasWildcard(w) /\ ~HasQuote(w)

RECURSIVE WithoutQuotes(_)
WithoutQuotes(w) ==
    IF w = "" THEN ""
    ELSE (IF SubSeq(w, 1, 1) = "\"" THEN "" ELSE SubSeq(w, 1, 1))
         \o WithoutQuotes(SubSeq(w, 2, Len(w)))

StripSign(w) == SubSeq(w, 2, Len(w))

\* C6: each word goes to the bucket of the first rule that applies, in the
\* order - , + with quote or wildcard, + , wildcard, quote, otherwise; the sign
\* is stripped, a + word is not fuzzy-expanded, a quoted word is kept verbatim;
\* and +foo -bar "baz" gives mustFuzzy [foo], mustNotExact [bar],
\* shouldExact ["baz"], the other buckets empty.
C6_FirstRuleDecides ==
    CalledQS =>
        LET t == qs_tailored
            mustNot == SelectSeq(Words, RuleMustNotExact)
            mustExact == SelectSeq(Words, RuleMustExact)
            mustFuzzy == SelectSeq(Words, RuleMustFuzzy)
            shouldExact == SelectSeq(Words, RuleShouldExact)
            shouldFuzzy == SelectSeq(Words, RuleShouldFuzzy)
        IN  /\ Len(t.mustNot_exact) = Len(mustNot)
            /\ \A i \in 1..Len(mustNot) :
                   WithoutQuotes(t.mustNot_exact[i]) = WithoutQuotes(StripSign(mustNot[i]))
            /\ t.must_exact = [i \in 1..Len(mustExact) |-> StripSign(mustExact[i])]
            /\ t.must_notexact = [i \in 1..Len(mustFuzzy) |-> StripSign(mustFuzzy[i])]
            /\ Len(t.should_exact) = Len(shouldExact)
            /\ \A i \in 1..Len(shouldExact) :
                   IF RuleQuoted(shouldExact[i])
                   THEN t.should_exact[i] = shouldExact[i]
                   ELSE WithoutQuotes(t.should_exact[i]) = WithoutQuotes(shouldExact[i])
            /\ Len(t.should_notexact) = Len(shouldFuzzy)
            /\ stateQuery.queryString = "+foo -bar \"baz\"" =>
                   t = [should_notexact |-> <<>>, should_exact |-> <<"\"baz\"">>,
                        must_notexact |-> <<"foo">>, must_exact |-> <<>>,
                        mustNot_exact |-> <<"bar">>]

C6_Witness ==
    /\ CalledQS
    /\ stateQuery.queryString = "+foo -bar \"baz\""
    /\ qs_tailored.must_notexact = <<"foo">>
    /\ qs_tailored.mustNot_exact = <<"bar">>
    /\ qs_tailored.should_exact = <<"\"baz\"">>

\* C7 as claimed: a fragment appended to mustNotExact, or to shouldExact by
\* the wildcard rule, holds no quotation mark.
C7_QuotesRemoved ==
    CalledQS =>
        /\ \A i \in 1..Len(qs_tailored.mustNot_exact) :
               ~HasQuote(qs_tailored.mustNot_exact[i])
        /\ \A i \in 1..Len(qs_tailored.should_exact) :
               HasWildcard(qs_tailored.should_exact[i]) =>
                   ~HasQuote(qs_tailored.should_exact[i])

(***************************************************************************)
(* Paging: one serialize call per behaviour, on either class, with page    *)
(* and size drawn from the integers around zero.                           *)
(***************************************************************************)
Pages == (0 - MaxPage)..MaxPage

Sizes == (0 - MaxSize)..MaxSize

InitPaging == Constructed(InstanceQS, AllNested) \/ Constructed(InstanceMM, AllNested)

PagingQS ==
    /\ calls = <<>>
    /\ \E p \in Pages, n \in Sizes :
           SerializeQS([payloadOfReset EXCEPT !.page = p, !.size = n])

PagingMM ==
    /\ calls = <<>>
    /\ \E p \in Pages, n \in Sizes :
           SerializeMM([payloadOfReset EXCEPT !.page = p, !.size = n])

NextPaging == PagingQS \/ PagingMM

SpecPaging == InitPaging /\ [][NextPaging]_vars

\* C5: size is present iff size > 0 and then equals size; from is present iff
\* page > 0 and then equals (page - 1) * s with s = size if size > 0, else 0.
C5_SizeAndFrom ==
    Called =>
        LET page == stateQuery.page
            size == stateQuery.size
        IN  /\ Has(bodyParams, "size") <=> size > 0
            /\ size > 0 => bodyParams.size = size
            /\ Has(bodyParams, "from") <=> page > 0
            /\ (page > 0 /\ size > 0) => bodyParams.from = (page - 1) * size
            /\ (page > 0 /\ size <= 0) => bodyParams.from = 0
            /\ (page = 3 /\ size = 10) => bodyParams.from = 20

C5_Witness ==
    /\ Called
    /\ stateQuery.page = 3
    /\ stateQuery.size = 10
    /\ bodyParams.from = 20
    /\ bodyParams.size = 10

(***************************************************************************)
(* Filters: every sequence of filter chains that holds at most MaxPairs    *)
(* (facet name, value) pairs, chains of any depth, and the documented      *)
(* example.                                                                *)
(***************************************************************************)
RECURSIVE ChainsOf(_, _, _)
ChainsOf(n, names, values) ==
    IF n = 1 THEN {<<a, v>> : a \in names, v \in values}
    ELSE {<<a, v, c>> : a \in names, v \in values, c \in ChainsOf(n - 1, names, values)}

RECURSIVE FiltersOf(_, _, _)
FiltersOf(n, names, values) ==
    IF n = 0 THEN {<<>>}
    ELSE UNION {{<<c>> \o f : c \in ChainsOf(k, names, values),
                              f \in FiltersOf(n - k, names, values)} : k \in 1..n}

FiltersUpTo(n, names, values) == UNION {FiltersOf(k, names, values) : k \in 0..n}

ExampleFilters == {<< <<"type", "A">>, <<"type", "B", <<"sub", "X">> >> >>}

FacetValues == {"A", "B"}

NamesQS ==
    {"kompasscomponent_agg.inner.kompasscomponent_token",
     "targetaudience_agg.inner.targetaudience_token",
     "unknown_agg"}

FiltersQS == FiltersUpTo(MaxPairs, NamesQS, FacetValues) \cup ExampleFilters

InitFiltersQS == \E c \in ConstantsJs : Constructed(InstanceQS, c)

NextFiltersQS ==
    /\ calls = <<>>
    /\ \E f \in FiltersQS : SerializeQS([payloadOfReset EXCEPT !.filters = f])

SpecFiltersQS == InitFiltersQS /\ [][NextFiltersQS]_vars

\* The (facet name, value) pairs of the chains in visiting order: the chains
\* left to right, a chain's own pair before its child chain.
RECURSIVE VisitChain(_)
VisitChain(chain) ==
    <<[name |-> chain[1], value |-> chain[2]]>>
    \o (IF Len(chain) = 3 THEN VisitChain(chain[3]) ELSE <<>>)

RECURSIVE Visit(_)
Visit(filters) == IF filters = <<>> THEN <<>> ELSE VisitChain(filters[1]) \o Visit(Tail(filters))

\* The values paired with the name, in the order of the pairs.
RECURSIVE ValuesOf(_, _)
ValuesOf(pairs, name) ==
    IF pairs = <<>> THEN <<>>
    ELSE (IF pairs[1].name = name THEN <<pairs[1].value>> ELSE <<>>)
         \o ValuesOf(Tail(pairs), name)

\* C4: getFilters gives, for each facet name of the chains and for no other
\* name, the values recorded for it in visiting order with duplicates kept;
\* [[type,A],[type,B,[sub,X]]] gives {type: [A,B], sub: [X]}.
C4_Flatten ==
    Called =>
        LET pairs == Visit(stateQuery.filters)
            obj == aggValueObj
        IN  /\ {obj[i].aggName : i \in 1..Len(obj)} = {pairs[i].name : i \in 1..Len(pairs)}
            /\ \A i, j \in 1..Len(obj) : obj[i].aggName = obj[j].aggName => i = j
            /\ \A i \in 1..Len(obj) : obj[i].values = ValuesOf(pairs, obj[i].aggName)
            /\ stateQuery.filters \in ExampleFilters =>
                   obj = <<[aggName |-> "type", values |-> <<"A", "B">>],
                           [aggName |-> "sub", values |-> <<"X">>]>>

\* Two chains share a facet name, one of them at depth 3, with a repeated value.
C4_Witness ==
    /\ Called
    /\ \E i \in 1..Len(stateQuery.filters) : Len(stateQuery.filters[i]) = 3
    /\ Len(stateQuery.filters) >= 2
    /\ \E i \in 1..Len(aggValueObj) :
           /\ Len(aggValueObj[i].values) = 3
           /\ aggValueObj[i].values[1] = aggValueObj[i].values[3]

\* The entries of the flattened mapping whose facet is configured with a
\* field in the given list.
SelectedIn(obj, fields) ==
    SelectSeq(obj, LAMBDA e : /\ e.aggName \in DOMAIN aggFieldsMapping
                              /\ Contains(fields, aggFieldsMapping[e.aggName]))

\* C8: post_filter is {bool: {must: M, filter: N}}; M is the terms clause on
\* portal_type with the allowed content types, the terms clause on
\* review_state with the allowed review states, then one terms clause
\* {fieldPath: values} per selected list facet; N is one nested clause per
\* selected nested facet and the filter key is absent exactly when there is
\* none.
C8_PostFilter ==
    CalledQS =>
        LET bool == bodyParams.post_filter.bool
            list == SelectedIn(aggValueObj, constants_js.listFilterFields)
            nested == SelectedIn(aggValueObj, constants_js.nestedFilterFields)
            path(e) == aggFieldsMapping[e.aggName]
        IN  /\ DOMAIN bodyParams.post_filter = {"bool"}
            /\ bool.must =
                   <<[terms |-> [portal_type |-> <<"Manual">>]],
                     [terms |-> [review_state |-> this.reviewstatemapping["Manual"]]]>>
                   \o [i \in 1..Len(list) |-> [terms |-> (path(list[i]) :> list[i].values)]]
            /\ Has(bool, "filter") <=> nested # <<>>
            /\ DOMAIN bool \subseteq {"must", "filter"}
            /\ Has(bool, "filter") =>
                   bool.filter =
                       [i \in 1..Len(nested) |->
                           [nested |->
                               [path |-> path(nested[i]),
                                query |-> [bool |-> [must |->
                                    <<[terms |-> ((path(nested[i]) \o ".token")
                                                     :> nested[i].values)]>>]]]]]

\* A list facet and a nested facet are both selected.
C8_Witness ==
    /\ CalledQS
    /\ Len(bodyParams.post_filter.bool.must) = 3
    /\ Has(bodyParams.post_filter.bool, "filter")
    /\ Len(bodyParams.post_filter.bool.filter) = 1

(***************************************************************************)
(* Filters on the multi_match class.                                       *)
(***************************************************************************)
NamesMM == {"subjects_agg", "informationtype_agg", "section", "unknown_agg"}

FacetValuesMM == {"A", "others"}

FiltersMM == FiltersUpTo(MaxPairs, NamesMM, FacetValuesMM)

InitFiltersMM == Constructed(InstanceMM, AllNested)

NextFiltersMM ==
    /\ calls = <<>>
    /\ \E f \in FiltersMM : SerializeMM([payloadOfReset EXCEPT !.filters = f])

SpecFiltersMM == InitFiltersMM /\ [][NextFiltersMM]_vars

\* The facet name under which the selections of a configured facet arrive:
\* its aggregation name (lines 734-740), and 'section' for the section facet
\* (lines 623 and 641).
FilterNameMM(fieldName) == IF fieldName = "section" THEN "section" ELSE aggNameMM(fieldName)

\* The selected-terms clause of the filter name, with the key lines 634-639 give.
SelectedClauseMM(e) ==
    LET fieldName == getFieldnameFromAgg(e.aggName)
    IN  [terms |-> ((IF fieldName = "subjects" THEN "subjects.keyword" ELSE fieldName)
                    :> e.values)]

\* C3 as claimed: the filter of the aggregation of a facet F with selected
\* values does not hold F's selected-terms clause, and the filter of the
\* aggregation of every other configured facet G holds it.
C3_SelfExclusion ==
    CalledMM =>
        \A F \in {aggregations(this)[i] : i \in 1..Len(aggregations(this))} :
            \A k \in 1..Len(aggValueObj) :
                LET clause == SelectedClauseMM(aggValueObj[k])
                IN  (/\ aggValueObj[k].aggName = FilterNameMM(F)
                     /\ Contains(bodyParams.post_filter.bool.must, clause)) =>
                        \A G \in {aggregations(this)[i] : i \in 1..Len(aggregations(this))} :
                            Contains(bodyParams.aggs[aggNameMM(G)].filter.bool.must, clause)
                                <=> G # F

\* The filters without the pairs whose facet name is not in known; the child
\* of a removed pair takes its place.
RECURSIVE StripChain(_, _)
StripChain(chain, known) ==
    LET child == IF Len(chain) = 3 THEN StripChain(chain[3], known) ELSE <<>>
    IN  IF chain[1] \in known
        THEN (IF child = <<>> THEN <<chain[1], chain[2]>> ELSE <<chain[1], chain[2], child>>)
        ELSE child

RECURSIVE StripUnknown(_, _)
StripUnknown(filters, known) ==
    IF filters = <<>> THEN <<>>
    ELSE (IF StripChain(filters[1], known) = <<>> THEN <<>>
          ELSE <<StripChain(filters[1], known)>>)
         \o StripUnknown(Tail(filters), known)

ConfiguredNames ==
    IF this.cls = "qs" THEN DOMAIN aggFieldsMapping
    ELSE {FilterNameMM(aggregations(this)[i]) : i \in 1..Len(aggregations(this))}

\* C9 as claimed: the request body is the one serialize gives for the same
\* search state without the pairs of facet names that are not configured.
C9_UnknownFacetDropped ==
    Called =>
        LET known == [stateQuery EXCEPT !.filters = StripUnknown(@, ConfiguredNames)]
        IN  bodyParams = IF this.cls = "qs"
                         THEN serializeQS(this, constants_js, known).bodyParams
                         ELSE serializeMM(this, known).bodyParams

(***************************************************************************)
(* Call sequences: up to MaxCalls serialize calls on one instance of       *)
(* either class, each with one of the sample search states.                *)
(***************************************************************************)
SampleStates ==
    {payloadOfReset,
     [payloadOfReset EXCEPT !.queryString = "+foo -bar \"baz\""],
     [payloadOfReset EXCEPT !.queryString = "sun-shine", !.sortBy = "modified",
                            !.sortOrder = "desc"],
     [payloadOfReset EXCEPT !.page = 3],
     [payloadOfReset EXCEPT !.filters = << <<"section", "others">> >>],
     [payloadOfReset EXCEPT !.filters = << <<"informationtype_agg", "A">>,
                                           <<"subjects_agg", "B">> >>],
     [payloadOfReset EXCEPT !.filters =
         << <<"kompasscomponent_agg.inner.kompasscomponent_token", "A",
              <<"targetaudience_agg.inner.targetaudience_token", "B">> >> >>],
     [payloadOfReset EXCEPT !.queryString = "a*", !.size = 0,
                            !.filters = << <<"unknown_agg", "A">> >>]}

InitCalls == \E c \in ConstantsJs : Constructed(InstanceQS, c) \/ Constructed(InstanceMM, c)

CallQS ==
    /\ Len(calls) < MaxCalls
    /\ \E sq \in SampleStates : SerializeQS(sq)

CallMM ==
    /\ Len(calls) < MaxCalls
    /\ \E sq \in SampleStates : SerializeMM(sq)

NextCalls == CallQS \/ CallMM

SpecCalls == InitCalls /\ [][NextCalls]_vars

FacetFieldNames == {"Subject", "informationtype", "kompasscomponent"}

RECURSIVE Arrangements(_)
Arrangements(S) ==
    {<<>>} \cup UNION {{<<x>> \o rest : rest \in Arrangements(S \ {x})} : x \in S}

InitAggs ==
    \/ \E c \in ConstantsJs : Constructed(InstanceQS, c)
    \/ \E ff \in Arrangements(FacetFieldNames) :
           Constructed([InstanceMM EXCEPT !.facet_fields = ff], AllNested)

AggsQS ==
    /\ calls = <<>>
    /\ \E sq \in SampleStates : SerializeQS(sq)

AggsMM ==
    /\ calls = <<>>
    /\ \E sq \in SampleStates : SerializeMM(sq)

NextAggs == AggsQS \/ AggsMM

SpecAggs == InitAggs /\ [][NextAggs]_vars

\* The bucket size a facet configuration gives each facet field.
bucketSize ==
    [f \in {"Subject", "informationtype", "kompasscomponent", "targetaudience",
            "organisationunit", "section"} |->
        IF f = "Subject" THEN 20 ELSE IF f = "section" THEN 500 ELSE 30]

Elements(list) == {list[i] : i \in 1..Len(list)}

\* The facets a multi_match instance aggregates, the section facet with them.
FacetsMM == Elements(this.facet_fields) \cup {"section"}

\* The keys of aggFieldsMapping whose field constants.js lists.
ListFacetsQS ==
    {k \in DOMAIN aggFieldsMapping :
        aggFieldsMapping[k] \in Elements(constants_js.listFilterFields)}

NestedFacetsQS ==
    {k \in DOMAIN aggFieldsMapping :
        aggFieldsMapping[k] \in Elements(constants_js.nestedFilterFields)}

TermsAs(t, field, size) ==
    /\ t.field = field
    /\ Has(t, "order") /\ t.order = [_key |-> "asc"]
    /\ Has(t, "size") /\ t.size = size

TopHitsOne(a) ==
    /\ Has(a, "somemoredatafromelasticsearch")
    /\ a.somemoredatafromelasticsearch.top_hits.size = 1

\* The aggs of a multi_match body, every terms aggregation of size n(facet).
AggsShapeMM(n(_)) ==
    /\ DOMAIN bodyParams.aggs = {aggNameMM(f) : f \in FacetsMM}
    /\ \A f \in FacetsMM :
           LET entry == bodyParams.aggs[aggNameMM(f)]
           IN  /\ TermsAs(entry.aggs[aggNameMM(f)].terms, fieldMM(f), n(f))
               /\ TopHitsOne(entry.aggs)

\* The aggs of a query_string body: its nested facets with terms of size
\* n(field); its list facets as listShape(entry, field) says.
AggsShapeQS(n(_), listShape(_, _)) ==
    /\ DOMAIN bodyParams.aggs =
           ListFacetsQS \cup {split(k, ".")[1] : k \in NestedFacetsQS}
    /\ \A k \in NestedFacetsQS :
           LET field == aggFieldsMapping[k]
               inner == bodyParams.aggs[split(k, ".")[1]].aggs.inner
               token == inner.aggs[split(k, ".")[3]]
           IN  /\ inner.nested.path = field
               /\ TermsAs(token.terms, field \o ".token", n(field))
               /\ TopHitsOne(token.aggs)
    /\ \A k \in ListFacetsQS : listShape(bodyParams.aggs[k], aggFieldsMapping[k])

\* C11 as claimed: aggs has one entry per configured facet and no other; its
\* terms aggregation is on the facet's field (.token when nested), ordered by
\* key ascending, of the facet's configured bucket size, with a top_hits
\* aggregation of size 1.
C11_ConfiguredBucketSize ==
    Called =>
        IF this.cls = "mm"
        THEN AggsShapeMM(LAMBDA f : bucketSize[f])
        ELSE AggsShapeQS(LAMBDA f : bucketSize[f],
                         LAMBDA e, field : /\ TermsAs(e.terms, field, bucketSize[field])
                                           /\ Has(e, "aggs") /\ TopHitsOne(e.aggs))

\* C11 amended: the multi_match serializer gives aggs one entry per facet
\* field and one for section, each with a terms aggregation on the facet's
\* field, ordered by key ascending, of the fixed size 500, and a top_hits
\* aggregation of size 1 beside it; the query_string serializer gives one
\* entry per nested facet, with terms on field.token, ordered by key
\* ascending, of the fixed size 30, with a top_hits sub-aggregation of size 1,
\* and one entry per list facet that is the bare terms aggregation on its field.
C11_FixedBucketSize ==
    Called =>
        IF this.cls = "mm"
        THEN AggsShapeMM(LAMBDA f : 500)
        ELSE AggsShapeQS(LAMBDA f : 30,
                         LAMBDA e, field : e = [terms |-> [field |-> field]])

\* A multi_match instance with the Subject facet and another one has
\* aggregated; their terms aggregations have the size 500.
C11_Witness ==
    /\ CalledMM
    /\ Len(this.facet_fields) >= 2
    /\ Has(bodyParams.aggs, "subjects_agg")
    /\ bodyParams.aggs["subjects_agg"].aggs["subjects_agg"].terms.size = 500
    /\ Cardinality(DOMAIN bodyParams.aggs) = Len(this.facet_fields) + 1

(***************************************************************************)
(* Properties of the fuzzy expansion.                                      *)
(***************************************************************************)
HyphensOf(w) == {i \in 1..Len(w) : SubSeq(w, i, i) = "-"}

\* The position of the k-th hyphen of w; 0 before the first and Len(w) + 1
\* after the last.
HyphenAt(w, k) ==
    IF k = 0 THEN 0
    ELSE IF k > Cardinality(HyphensOf(w)) THEN Len(w) + 1
    ELSE CHOOSE i \in HyphensOf(w) : Cardinality({j \in HyphensOf(w) : j < i}) = k - 1

\* The hyphen-separated parts of w in order.
HyphenParts(w) ==
    [k \in 1..(Cardinality(HyphensOf(w)) + 1) |->
        SubSeq(w, HyphenAt(w, k - 1) + 1, HyphenAt(w, k) - 1)]

Fuzzy(p) == p \o " " \o p \o "~"

RECURSIVE SpaceJoined(_)
SpaceJoined(list) ==
    IF Len(list) = 0 THEN ""
    ELSE IF Len(list) = 1 THEN list[1]
    ELSE SpaceJoined(SubSeq(list, 1, Len(list) - 1)) \o " " \o list[Len(list)]

ExpectedFuzzy(w) ==
    IF HyphensOf(w) = {} THEN Fuzzy(w)
    ELSE SpaceJoined([k \in 1..Len(HyphenParts(w)) |-> Fuzzy(HyphenParts(w)[k])]
                     \o <<Fuzzy(w)>>)

\* C12: a word with no sign in front, no wildcard and no quotation mark
\* appends one shouldFuzzy entry: with hyphens, p p~ of each hyphen-separated
\* part in order and then of the whole word, joined by single spaces; without,
\* word word~.  sun-shine gives sun sun~ shine shine~ sun-shine sun-shine~.
C12_FuzzyExpansion ==
    CalledQS =>
        LET fuzzyWords == SelectSeq(Words, RuleShouldFuzzy)
        IN  /\ qs_tailored.should_notexact =
                   [i \in 1..Len(fuzzyWords) |-> ExpectedFuzzy(fuzzyWords[i])]
            /\ stateQuery.queryString = "sun-shine" =>
                   qs_tailored.should_notexact =
                       <<"sun sun~ shine shine~ sun-shine sun-shine~">>

C12_Witness ==
    /\ CalledQS
    /\ stateQuery.queryString = "sun-shine"
    /\ qs_tailored.should_notexact = <<"sun sun~ shine shine~ sun-shine sun-shine~">>

(***************************************************************************)
(* Properties of the orphan-quote rule.                                    *)
(***************************************************************************)
SignStripped(word) == trim(trim(word, "+"), "-")

\* The number of characters of word in front of SignStripped(word).
SignPrefixLen(word) == Len(word) - Len(trimStart(trimStart(word, "+"), "-"))

\* word with the one boundary quotation mark of its sign-stripped form
\* removed and everything else, the signs included, kept.
BoundaryQuoteStripped(word) ==
    LET w    == SignStripped(word)
        pre  == SubSeq(word, 1, SignPrefixLen(word))
        post == SubSeq(word, SignPrefixLen(word) + Len(w) + 1, Len(word))
    IN  IF startsWith(w, "\"")
        THEN pre \o slice(w, 1) \o post
        ELSE pre \o SubSeq(w, 1, Len(w) - 1) \o post

\* C13: a word whose sign-stripped form has a quotation mark at both
\* boundaries or at neither passes through unchanged; otherwise the result is
\* the word with that boundary quotation mark stripped and its sign kept, and
\* the sign-stripped form of the result has no quotation mark at either
\* boundary.
C13_OrphanQuoteStripped ==
    CalledQS =>
        \A i \in 1..Len(Words) :
            LET word   == words(stateQuery.queryString)[i]
                w      == SignStripped(word)
                result == Words[i]
            IN  IF startsWith(w, "\"") <=> endsWith(w, "\"")
                THEN result = word
                ELSE /\ result = BoundaryQuoteStripped(word)
                     /\ ~startsWith(SignStripped(result), "\"")
                     /\ ~endsWith(SignStripped(result), "\"")

(***************************************************************************)
(* Properties of the distribution of the words over the five lists.        *)
(***************************************************************************)
CharAt(s, i) == SubSeq(s, i, i)

\* The first positions of the maximal space-free stretches of s that are not
\* a lone quotation mark.
WordStarts(s) ==
    {i \in 1..Len(s) :
        /\ CharAt(s, i) # " "
        /\ i = 1 \/ CharAt(s, i - 1) = " "
        /\ ~(/\ CharAt(s, i) = "\""
             /\ i = Len(s) \/ CharAt(s, i + 1) = " ")}

WordFrom(s, i) ==
    LET last == CHOOSE j \in i..Len(s) :
                    /\ \A k \in i..j : CharAt(s, k) # " "
                    /\ j = Len(s) \/ CharAt(s, j + 1) = " "
    IN  SubSeq(s, i, last)

\* The words of s in the order they stand in s.
SourceWords(s) ==
    [n \in 1..Cardinality(WordStarts(s)) |->
        WordFrom(s, CHOOSE i \in WordStarts(s) :
                        Cardinality({j \in WordStarts(s) : j < i}) = n - 1)]

\* f is what a list receives for the source word w.
FragmentOf(f, w) ==
    LET c == _remove_orphan_leading_or_trailing_quotmarks(w)
    IN  f \in {c, StripSign(c), ExpectedFuzzy(c)}

\* C14: for a non-empty query string, every space-separated word that is
\* neither empty nor a lone quotation mark is appended to exactly one of the
\* five lists: the lists hold as many fragments together as there are such
\* words, and the fragments of each list stand in the order of their source
\* words.
C14_EachWordOnceInOrder ==
    (CalledQS /\ stateQuery.queryString # "") =>
        LET src == SourceWords(stateQuery.queryString)
            t   == qs_tailored
            In(rule(_)) ==
                SelectSeq(src, LAMBDA w :
                    rule(_remove_orphan_leading_or_trailing_quotmarks(w)))
            InOrder(list, rule(_)) ==
                /\ Len(list) = Len(In(rule))
                /\ \A k \in 1..Len(list) : FragmentOf(list[k], In(rule)[k])
        IN  /\ Len(t.mustNot_exact) + Len(t.must_exact) + Len(t.must_notexact)
                   + Len(t.should_exact) + Len(t.should_notexact) = Len(src)
            /\ InOrder(t.mustNot_exact, RuleMustNotExact)
            /\ InOrder(t.must_exact, RuleMustExact)
            /\ InOrder(t.must_notexact, RuleMustFuzzy)
            /\ InOrder(t.should_exact, RuleShouldExact)
            /\ InOrder(t.should_notexact, RuleShouldFuzzy)

\* Two different words appended to one list, in their order.
C14_Witness ==
    /\ CalledQS
    /\ stateQuery.queryString = "a a-"
    /\ qs_tailored.should_notexact = <<"a a~", "a a~  ~ a- a-~">>
    /\ Len(SourceWords(stateQuery.queryString)) = 2

(***************************************************************************)
(* Properties of the section exclusion of the multi_match class.           *)
(***************************************************************************)
\* The selected values of the section facet, <<>> when none is selected.
SelectedSections ==
    IF \E k \in 1..Len(aggValueObj) : aggValueObj[k].aggName = "section"
    THEN (CHOOSE e \in {aggValueObj[k] : k \in 1..Len(aggValueObj)} :
              e.aggName = "section").values
    ELSE <<>>

SectionClauseInMust ==
    \E i \in 1..Len(bodyParams.post_filter.bool.must) :
        "section" \in DOMAIN bodyParams.post_filter.bool.must[i].terms

SectionsExcluded == "must_not" \in DOMAIN bodyParams.post_filter.bool

\* C15: in the multi_match class, with a section value selected,
\* post_filter.bool.must_not is present exactly when the section terms clause
\* is absent from post_filter.bool.must, which is exactly when the selected
\* section values are ["others"] alone; post_filter never holds both the
\* section terms clause and the must_not exclusion.
C15_ExclusionOrSectionClause ==
    CalledMM =>
        /\ SectionsExcluded <=> SelectedSections = <<"others">>
        /\ SelectedSections # <<>> => (SectionsExcluded <=> ~SectionClauseInMust)
        /\ ~(SectionsExcluded /\ SectionClauseInMust)

=============================================================================
